---- MODULE Spec2Model ----
(***************************************************************************)
(* destiny_draw: the per-player deck / hand / discard engine               *)
(* (src/src/state.rs, src/src/types.rs) and the command handlers and the   *)
(* autosave task that drive it under one store lock (src/src/main.rs).     *)
(*                                                                         *)
(* Conventions.  A Rust Option is a sequence of length 0 (None) or 1       *)
(* (Some(x)).  A Vec is a sequence; Rust indices are 0-based, so hand[i]   *)
(* of the code is hand[i + 1] here and card_indices keep the 0-based       *)
(* numbers of the code.  A Result<(), String> is the string "Ok" or the    *)
(* error message.                                                          *)
(***************************************************************************)
EXTENDS Integers, Sequences, FiniteSets, Bags, TLC

(***************************************************************************)
(* Bounds of the model.                                                    *)
(***************************************************************************)
\* The deck of the model holds the NumRanks highest ranks of each suit.
NumRanks == 2
\* How many outcomes of a shuffle are explored.
NumShuffles == 2
\* Player ids are 1..NumPlayers.
NumPlayers == 2
\* Commands issued in one behaviour.
MaxCmds == 3
\* Tokens of a mulligan's positions string.
MaxTokens == 2
\* Largest n of a direct draw_to_hand(n) call.
MaxDraw == 6
\* Operations in one behaviour that ends with direct engine calls.
MaxCalls == 4

(***************************************************************************)
(* Program constants.                                                      *)
(***************************************************************************)
MaxRank == 7
NumJokers == 2
DefaultValue == 7
StartDraw == 5
HandTarget == 5
MaxMulligan == 5

(***************************************************************************)
(* types.rs: cards and the deck.                                           *)
(***************************************************************************)
\* The elemental suits in the order Deck::new lists them.
Suits == <<"Air", "Fire", "Ice", "Earth">>

\* CardType::Number(Option<u8>, Suit); the suit is its element.
Card(num, element) == [num |-> num, element |-> element]

Joker == Card(<<>>, "None")

LowRank == MaxRank - NumRanks + 1

\* Concatenation of the sequences in parts, in order: a for loop that
\* appends to a Vec.
RECURSIVE Flatten(_)
Flatten(parts) ==
    IF parts = <<>> THEN <<>> ELSE Head(parts) \o Flatten(Tail(parts))

\* for x in lo..hi, appending body[x] to a Vec.
CatRange(lo, hi, body) == Flatten([x \in 1..(hi - lo) |-> body[lo + x - 1]])

\* Deck::new: for each suit, each rank; then the two jokers.
DeckNew ==
    Flatten([s \in 1..Len(Suits) |->
                [r \in 1..NumRanks |-> Card(<<LowRank + r - 1>>, Suits[s])]])
    \o [j \in 1..NumJokers |-> Joker]

DeckSize == Len(DeckNew)

\* One outcome of a shuffle: the cards dealt round-robin into k piles and
\* the piles stacked (k = 1 leaves the order as it is).
DealPiles(cards, k) ==
    Flatten([r \in 1..k |->
                IF r > Len(cards) THEN <<>>
                ELSE [j \in 1..((Len(cards) - r) \div k + 1) |->
                         cards[r + (j - 1) * k]]])

\* Deck::shuffle: a random permutation; the model explores NumShuffles of
\* them.
Shuffle(cards) == { DealPiles(cards, k) : k \in 1..NumShuffles }

(***************************************************************************)
(* state.rs: PlayerState.                                                  *)
(***************************************************************************)
Ok == "Ok"
ErrExhausted == "No cards left in deck or discard"
ErrIndex == "Card index out of bounds"

PlayerState(deck, hand, discard) ==
    [deck |-> deck, hand |-> hand, discard |-> discard]

\* PlayerState::new: every freshly shuffled state.
PlayerStateNew == { PlayerState(d, <<>>, <<>>) : d \in Shuffle(DeckNew) }

Outcome(ps, res) == [ps |-> ps, res |-> res]

\* Vec::pop moved to the hand: the last card of the deck.
PopToHand(ps) ==
    PlayerState(SubSeq(ps.deck, 1, Len(ps.deck) - 1),
                Append(ps.hand, ps.deck[Len(ps.deck)]),
                ps.discard)

\* A draw that fails on an empty deck without recycling the discard pile.
DrawOne_no_recycle(ps) ==
    IF ps.deck # <<>> THEN { Outcome(PopToHand(ps), Ok) }
    ELSE { Outcome(ps, ErrExhausted) }

\* One iteration of draw_to_hand's loop: the outcomes it can have.
DrawOne(ps) ==
    IF ps.deck # <<>> THEN { Outcome(PopToHand(ps), Ok) }
    ELSE IF ps.discard # <<>>
         THEN { Outcome(PopToHand(PlayerState(d, ps.hand, <<>>)), Ok) :
                   d \in Shuffle(ps.deck \o ps.discard) }
         ELSE { Outcome(ps, ErrExhausted) }

\* A draw that stops quietly, with Ok, when no card is left.
RECURSIVE draw_to_hand_silent(_, _)
draw_to_hand_silent(ps, num_cards) ==
    IF num_cards = 0 THEN { Outcome(ps, Ok) }
    ELSE UNION { IF o.res = Ok THEN draw_to_hand_silent(o.ps, num_cards - 1)
                 ELSE { Outcome(o.ps, Ok) } : o \in DrawOne(ps) }

\* A draw from the deck alone, failing when the deck runs out.
RECURSIVE draw_to_hand_deck_only(_, _)
draw_to_hand_deck_only(ps, num_cards) ==
    IF num_cards = 0 THEN { Outcome(ps, Ok) }
    ELSE IF ps.deck = <<>> THEN { Outcome(ps, ErrExhausted) }
    ELSE draw_to_hand_deck_only(PopToHand(ps), num_cards - 1)

\* draw_to_hand(num_cards): the loop stops at the first failing iteration.
RECURSIVE draw_to_hand(_, _)
draw_to_hand(ps, num_cards) ==
    IF num_cards = 0 THEN { Outcome(ps, Ok) }
    ELSE UNION { IF o.res = Ok THEN draw_to_hand(o.ps, num_cards - 1)
                 ELSE { o } : o \in DrawOne(ps) }

\* Vec::remove(i): the sequence without its element at 0-based index i.
Remove(s, i) == SubSeq(s, 1, i) \o SubSeq(s, i + 2, Len(s))

\* A discard that removes the card from the hand and forgets it.
discard_from_hand_lost(ps, card_index) ==
    IF card_index >= Len(ps.hand) THEN Outcome(ps, ErrIndex)
    ELSE Outcome(PlayerState(ps.deck, Remove(ps.hand, card_index),
                             ps.discard),
                 Ok)

\* A discard by Vec::swap_remove: the last card of the hand takes the place
\* of the removed one.
discard_from_hand_swap(ps, card_index) ==
    IF card_index >= Len(ps.hand) THEN Outcome(ps, ErrIndex)
    ELSE Outcome(PlayerState(ps.deck,
                             [n \in 1..(Len(ps.hand) - 1) |->
                                 IF n = card_index + 1
                                 THEN ps.hand[Len(ps.hand)]
                                 ELSE ps.hand[n]],
                             Append(ps.discard, ps.hand[card_index + 1])),
                 Ok)

discard_from_hand(ps, card_index) ==
    IF card_index >= Len(ps.hand) THEN Outcome(ps, ErrIndex)
    ELSE Outcome(PlayerState(ps.deck,
                             Remove(ps.hand, card_index),
                             Append(ps.discard, ps.hand[card_index + 1])),
                 Ok)

\* `for &index in indices { discard_from_hand(index)?; }`: stops at the
\* first error, keeping what was discarded before it.
RECURSIVE DiscardAll(_, _)
DiscardAll(ps, indices) ==
    IF indices = <<>> THEN Outcome(ps, Ok)
    ELSE LET o == discard_from_hand(ps, Head(indices))
         IN  IF o.res = Ok THEN DiscardAll(o.ps, Tail(indices)) ELSE o

(***************************************************************************)
(* state.rs: the combo detector.                                           *)
(***************************************************************************)
AllElements == <<"Air", "Earth", "Fire", "Ice">>

\* The first pass over the cards of a candidate subset: value, joker_count
\* and non_joker_suits; mismatch is set where the code returns None.
RECURSIVE FirstPass(_, _)
FirstPass(cards, acc) ==
    IF cards = <<>> \/ acc.mismatch THEN acc
    ELSE LET card == Head(cards)
         IN  FirstPass(Tail(cards),
                 IF card.num # <<>>
                 THEN IF acc.value # <<>> /\ acc.value # card.num
                      THEN [acc EXCEPT !.mismatch = TRUE]
                      ELSE [acc EXCEPT
                              !.value = card.num,
                              !.non_joker_suits =
                                  IF card.element # "None"
                                  THEN Append(@, card.element) ELSE @]
                 ELSE [acc EXCEPT !.joker_count = @ + 1])

Scan(cards) ==
    FirstPass(cards, [mismatch |-> FALSE, value |-> <<>>, joker_count |-> 0,
                      non_joker_suits |-> <<>>])

\* Option::unwrap_or.
UnwrapOr(opt, default) == IF opt = <<>> THEN default ELSE opt[1]

\* The suits of the numbered cards alone, jokers adding nothing.
SuitsOf_numbered(scan) == scan.non_joker_suits

SuitsOf(scan) ==
    IF scan.joker_count > 0 THEN AllElements ELSE scan.non_joker_suits

\* check_pair_value(i, j): Option<(value, suits)>.
check_pair_value(hand, i, j) ==
    LET scan == Scan(<<hand[i + 1], hand[j + 1]>>)
    IN  IF scan.mismatch THEN <<>>
        ELSE IF scan.joker_count + Len(scan.non_joker_suits) = 2
             THEN << <<UnwrapOr(scan.value, DefaultValue), SuitsOf(scan)>> >>
             ELSE <<>>

\* check_jackpot that lets jokers stand in, as check_triple does.
check_jackpot_wild(hand, i, j, k, l) ==
    LET scan == Scan(<<hand[i + 1], hand[j + 1], hand[k + 1], hand[l + 1]>>)
    IN  IF scan.mismatch THEN <<>>
        ELSE IF scan.joker_count + Len(scan.non_joker_suits) = 4
             THEN << [kind |-> "Jackpot",
                      value |-> UnwrapOr(scan.value, DefaultValue),
                      suits |-> SuitsOf(scan),
                      card_indices |-> <<i, j, k, l>>] >>
             ELSE <<>>

check_jackpot(hand, i, j, k, l) ==
    LET scan == Scan(<<hand[i + 1], hand[j + 1], hand[k + 1], hand[l + 1]>>)
    IN  IF scan.mismatch \/ scan.joker_count > 0 THEN <<>>
        ELSE IF Len(scan.non_joker_suits) = 4
             THEN << [kind |-> "Jackpot",
                      value |-> UnwrapOr(scan.value, DefaultValue),
                      suits |-> scan.non_joker_suits,
                      card_indices |-> <<i, j, k, l>>] >>
             ELSE <<>>

\* The elements of xs not yet in seen, in order, appended to seen.
RECURSIVE AddNew(_, _)
AddNew(seen, xs) ==
    IF xs = <<>> THEN seen
    ELSE AddNew(IF \E n \in 1..Len(seen) : seen[n] = Head(xs)
                THEN seen ELSE Append(seen, Head(xs)),
                Tail(xs))

check_double_trouble(hand, i, j, k, l) ==
    LET first_pair  == check_pair_value(hand, i, j)
        second_pair == check_pair_value(hand, k, l)
    IN  IF first_pair = <<>> \/ second_pair = <<>> THEN <<>>
        ELSE << [kind |-> "DoubleTrouble",
                 first_pair_value |-> first_pair[1][1],
                 second_pair_value |-> second_pair[1][1],
                 suits |-> AddNew(AddNew(<<>>, first_pair[1][2]),
                                  second_pair[1][2]),
                 card_indices |-> <<i, j, k, l>>] >>

check_triple(hand, i, j, k) ==
    LET scan == Scan(<<hand[i + 1], hand[j + 1], hand[k + 1]>>)
    IN  IF scan.mismatch THEN <<>>
        ELSE IF scan.joker_count + Len(scan.non_joker_suits) = 3
             THEN << [kind |-> "TripleThreat",
                      value |-> UnwrapOr(scan.value, DefaultValue),
                      suits |-> SuitsOf(scan),
                      card_indices |-> <<i, j, k>>] >>
             ELSE <<>>

check_pair(hand, i, j) ==
    LET scan == Scan(<<hand[i + 1], hand[j + 1]>>)
    IN  IF scan.mismatch THEN <<>>
        ELSE IF scan.joker_count + Len(scan.non_joker_suits) = 2
             THEN << [kind |-> "MatchedEdge",
                      value |-> UnwrapOr(scan.value, DefaultValue),
                      suits |-> SuitsOf(scan),
                      card_indices |-> <<i, j>>] >>
             ELSE <<>>

\* The jackpot loops: i < j < k < l.
JackpotHands(hand) ==
    LET n == Len(hand)
    IN  IF n >= 4
        THEN CatRange(0, n, [i \in 0..(n - 1) |->
             CatRange(i + 1, n, [j \in (i + 1)..(n - 1) |->
             CatRange(j + 1, n, [k \in (j + 1)..(n - 1) |->
             CatRange(k + 1, n, [l \in (k + 1)..(n - 1) |->
                 check_jackpot(hand, i, j, k, l)])])])])
        ELSE <<>>

\* The double trouble loops without the comparison of the two values.
DoubleTroubleHands_any(hand) ==
    LET n == Len(hand)
    IN  IF n >= 4
        THEN CatRange(0, n, [i \in 0..(n - 1) |->
             CatRange(i + 1, n, [j \in (i + 1)..(n - 1) |->
                 CatRange(0, n, [k \in 0..(n - 1) |->
                     IF k = i \/ k = j THEN <<>>
                     ELSE CatRange(k + 1, n, [l \in (k + 1)..(n - 1) |->
                          IF l = i \/ l = j THEN <<>>
                          ELSE check_double_trouble(hand, i, j, k, l)])])])])
        ELSE <<>>

\* The double trouble loops: i < j, then every k < l with k, l not in {i, j}.
DoubleTroubleHands(hand) ==
    LET n == Len(hand)
    IN  IF n >= 4
        THEN CatRange(0, n, [i \in 0..(n - 1) |->
             CatRange(i + 1, n, [j \in (i + 1)..(n - 1) |->
                 LET p1 == check_pair_value(hand, i, j)
                 IN  IF p1 = <<>> THEN <<>>
                     ELSE CatRange(0, n, [k \in 0..(n - 1) |->
                          IF k = i \/ k = j THEN <<>>
                          ELSE CatRange(k + 1, n, [l \in (k + 1)..(n - 1) |->
                               IF l = i \/ l = j THEN <<>>
                               ELSE LET p2 == check_pair_value(hand, k, l)
                                    IN  IF p2 = <<>> THEN <<>>
                                        ELSE IF p1[1][1] # p2[1][1]
                                             THEN check_double_trouble(
                                                      hand, i, j, k, l)
                                             ELSE <<>>])])])])
        ELSE <<>>

TripleHands(hand) ==
    LET n == Len(hand)
    IN  CatRange(0, n, [i \in 0..(n - 1) |->
        CatRange(i + 1, n, [j \in (i + 1)..(n - 1) |->
        CatRange(j + 1, n, [k \in (j + 1)..(n - 1) |-> check_triple(hand, i, j, k)])])])

PairHands(hand) ==
    LET n == Len(hand)
    IN  CatRange(0, n, [i \in 0..(n - 1) |->
        CatRange(i + 1, n, [j \in (i + 1)..(n - 1) |-> check_pair(hand, i, j)])])

find_possible_hands(ps) ==
    JackpotHands(ps.hand) \o DoubleTroubleHands(ps.hand)
    \o TripleHands(ps.hand) \o PairHands(ps.hand)

(***************************************************************************)
(* state.rs: PlayerStateManager, and main.rs: the command handlers and the *)
(* autosave task.                                                          *)
(***************************************************************************)
VARIABLES
    players,    \* PlayerStateManager.players: user id -> PlayerState
    dirty,      \* PlayerStateManager.dirty
    disk,       \* player_state.json: Option of its content
    tmp,        \* player_state.json.tmp: Option of its content
    lock,       \* the store Mutex: Free, or the id of the handler holding it
    pc,         \* per user id, where that user's command handler stands
    last,       \* the last command or engine call and the store before it
    cmds        \* commands and engine calls issued so far

vars == <<players, dirty, disk, tmp, lock, pc, last, cmds>>

UserIds == 1..NumPlayers

Free == 0

\* A store that holds one entry only.
Insert_evict(map, id, ps) == [u \in {id} |-> ps]

\* A store whose entries all share the state written last.
Insert_all(map, id, ps) == [u \in DOMAIN map \cup {id} |-> ps]

\* HashMap::insert.
Insert(map, id, ps) ==
    [u \in DOMAIN map \cup {id} |-> IF u = id THEN ps ELSE map[u]]

\* start_new_combat with entry(id).or_insert(fresh): the entry an id
\* already has is kept.
start_new_combat_keep(map, id, fresh) ==
    [u \in DOMAIN map \cup {id} |->
        IF u \in DOMAIN map THEN map[u] ELSE fresh]

\* PlayerStateManager::start_new_combat on the players map (it also marks
\* the store dirty).
start_new_combat(map, id, fresh) == Insert(map, id, fresh)

\* PlayerState with #[serde(skip)] on discard.
Serialize_skip_discard(ps) ==
    [deck |-> ps.deck, hand |-> ps.hand, discard |-> <<>>]

\* #[derive(Serialize, Deserialize)] on PlayerState: the three piles, each a
\* JSON array in Vec order.
Serialize(ps) == [deck |-> ps.deck, hand |-> ps.hand, discard |-> ps.discard]

Deserialize(doc) == PlayerState(doc.deck, doc.hand, doc.discard)

\* serde_json::to_string(&self): a JSON object with one key/value entry per
\* player (dirty and last_save are #[serde(skip)]).
Snapshot(map) ==
    [complete |-> TRUE,
     players |-> { <<id, Serialize(map[id])>> : id \in DOMAIN map }]

\* A file whose write failed part-way, or whose content is damaged.
Partial == [complete |-> FALSE, players |-> {}]

\* serde_json::from_str: the players map of a well-formed document, as an
\* Option (empty on a parse error).
Parse(json) ==
    IF json.complete
    THEN << [id \in { e[1] : e \in json.players } |->
                Deserialize((CHOOSE e \in json.players : e[1] = id)[2])] >>
    ELSE <<>>

\* PlayerStateManager::new and the state main starts from when no snapshot
\* file exists.
Init ==
    /\ players = <<>>
    /\ dirty = FALSE
    /\ disk = <<>>
    /\ tmp = <<>>
    /\ lock = Free
    /\ pc = [u \in UserIds |-> "idle"]
    /\ last = [op |-> "none", id |-> 0, arg |-> <<>>, pre |-> <<>>,
               pre_dirty |-> FALSE, post_dirty |-> FALSE, res |-> Ok]
    /\ cmds = 0

\* A handler starts when its user has no command running, and passes
\* `lock().await` when the Mutex is free.
CanRun(id) ==
    /\ pc[id] = "idle"
    /\ lock = Free
    /\ cmds < MaxCmds

\* The record of a command or call: what was asked, the store and the dirty
\* flag before it, the dirty flag after it, and how it ended.
Record(op, id, arg, res) ==
    [op |-> op, id |-> id, arg |-> arg, pre |-> players,
     pre_dirty |-> dirty, post_dirty |-> dirty', res |-> res]

\* The handler is at `ctx.say(..).await` having dropped the guard.
SayUnlocked(id) ==
    /\ pc' = [pc EXCEPT ![id] = "say"]
    /\ lock' = Free

\* The handler is at `ctx.say(..).await` with the guard still alive: the
\* early-return branches, whose guard drops when the function returns.
SayLocked(id) ==
    /\ pc' = [pc EXCEPT ![id] = "say"]
    /\ lock' = id

\* The handler returned Err through `?` (or ended) without reaching a say:
\* the guard dropped on return.
Returned(id) ==
    /\ pc' = pc
    /\ lock' = Free

\* PlayerStateManager::start_new_combat followed by main.rs start_new_combat:
\* insert a fresh state, mark dirty, draw 5, reply.
StartNewCombat(id) ==
    /\ CanRun(id)
    /\ \E fresh \in PlayerStateNew :
       \E o \in draw_to_hand(fresh, StartDraw) :
          /\ players' = Insert(players, id, o.ps)
          /\ dirty' = TRUE
          /\ IF o.res = Ok THEN SayUnlocked(id) ELSE Returned(id)
          /\ last' = Record("start_new_combat", id, <<>>, o.res)
    /\ cmds' = cmds + 1
    /\ UNCHANGED <<disk, tmp>>

\* Vec::sort_unstable_by(|a, b| b.cmp(a)): descending.
RECURSIVE SortDesc(_)
SortDesc(s) ==
    IF s = <<>> THEN <<>>
    ELSE LET m == CHOOSE n \in 1..Len(s) : \A q \in 1..Len(s) : s[n] >= s[q]
         IN  <<s[m]>> \o SortDesc(Remove(s, m - 1))

\* The tokens of a positions string that parse as usize, each at least 1.
Tokens == 1..(HandTarget + 1)

\* The positions strings tried: one per multiset of tokens, in ascending
\* order (the handler sorts them).
Positions ==
    { s \in UNION { [1..n -> Tokens] : n \in 1..MaxTokens } :
         \A n \in 1..(Len(s) - 1) : s[n] <= s[n + 1] }

\* What a handler does after its work on the store: an early-return branch
\* replies with the guard still alive (it drops when the function returns),
\* the main path drops the guard and then replies, and an Err propagated by
\* `?` (or a panic) ends the handler without a reply, dropping the guard.
Rejections == {"NotStarted", "InvalidPositions", "InvalidHandNumber"}

\* main.rs mulligan, on the player's state: the positions parsed, made
\* 0-based and sorted descending, checked, discarded and redrawn.
mulligan(player, positions) ==
    LET indices == SortDesc([n \in 1..Len(positions) |-> positions[n] - 1])
    IN  IF \/ indices = <<>>
           \/ Len(indices) > MaxMulligan
           \/ \E n \in 1..Len(indices) : indices[n] >= Len(player.hand)
        THEN { Outcome(player, "InvalidPositions") }
        ELSE LET d == DiscardAll(player, indices)
             IN  IF d.res # Ok THEN { d }
                 ELSE draw_to_hand(d.ps, Len(indices))

Mulligan(id, positions) ==
    /\ CanRun(id)
    /\ cmds' = cmds + 1
    /\ UNCHANGED <<dirty, disk, tmp>>
    /\ IF id \notin DOMAIN players
       THEN /\ SayLocked(id)
            /\ players' = players
            /\ last' = Record("mulligan", id, positions, "NotStarted")
       ELSE \E o \in mulligan(players[id], positions) :
               /\ players' = Insert(players, id, o.ps)
               /\ last' = Record("mulligan", id, positions, o.res)
               /\ IF o.res = Ok THEN SayUnlocked(id)
                  ELSE IF o.res \in Rejections THEN SayLocked(id)
                  ELSE Returned(id)

\* main.rs view_hand.
ViewHand(id) ==
    /\ CanRun(id)
    /\ cmds' = cmds + 1
    /\ UNCHANGED <<players, dirty, disk, tmp>>
    /\ IF id \notin DOMAIN players
       THEN /\ SayLocked(id)
            /\ last' = Record("view_hand", id, <<>>, "NotStarted")
       ELSE /\ SayUnlocked(id)
            /\ last' = Record("view_hand", id, <<>>, Ok)

\* main.rs view_possible_resolutions: the guard is never dropped before the
\* function returns, on any of its three paths.
ViewPossibleResolutions(id) ==
    /\ CanRun(id)
    /\ cmds' = cmds + 1
    /\ UNCHANGED <<players, dirty, disk, tmp>>
    /\ SayLocked(id)
    /\ last' = Record("view_possible_resolutions", id, <<>>,
                      IF id \notin DOMAIN players THEN "NotStarted"
                      ELSE IF find_possible_hands(players[id]) = <<>>
                           THEN "NoHands" ELSE Ok)

\* Iterator::rev.
Reverse(s) == [n \in 1..Len(s) |-> s[Len(s) + 1 - n]]

\* A redraw of five cards whatever the hand still holds.
Redraw_five(ps) == draw_to_hand(ps, HandTarget)

\* `5 - player.hand.len()` and the draw that follows.  With more than 5
\* cards in hand the usize subtraction overflows: a build with overflow
\* checks panics there ("panic"), one without wraps to a count larger than
\* the supply, so that the draw takes every card left and then fails.
Redraw(ps) ==
    IF Len(ps.hand) <= HandTarget
    THEN IF HandTarget - Len(ps.hand) > 0
         THEN draw_to_hand(ps, HandTarget - Len(ps.hand))
         ELSE { Outcome(ps, Ok) }
    ELSE { Outcome(ps, "panic") }
         \cup draw_to_hand(ps, Len(ps.deck) + Len(ps.discard) + 1)

\* A resolve that clamps the hand number into the list instead of
\* rejecting it.
resolve_hand_clamp(player, possible_hands, hand_number) ==
    IF possible_hands = <<>>
    THEN { Outcome(player, "InvalidHandNumber") }
    ELSE LET n    == IF hand_number = 0 THEN 1
                     ELSE IF hand_number > Len(possible_hands)
                          THEN Len(possible_hands) ELSE hand_number
             hand == possible_hands[n]
             d    == DiscardAll(player, Reverse(hand.card_indices))
         IN  IF d.res # Ok THEN { d } ELSE Redraw(d.ps)

\* main.rs resolve_hand, on the player's state, given the detector's list:
\* the selection checked, the combo's indices discarded in reverse, the
\* hand redrawn.
resolve_hand(player, possible_hands, hand_number) ==
    IF hand_number = 0 \/ hand_number > Len(possible_hands)
    THEN { Outcome(player, "InvalidHandNumber") }
    ELSE LET hand == possible_hands[hand_number]
             d    == DiscardAll(player, Reverse(hand.card_indices))
         IN  IF d.res # Ok THEN { d } ELSE Redraw(d.ps)

\* The hand numbers tried: 0, every listed combo, and one past the list.
ResolveHand(id) ==
    /\ CanRun(id)
    /\ cmds' = cmds + 1
    /\ UNCHANGED <<dirty, disk, tmp>>
    /\ IF id \notin DOMAIN players
       THEN \E hand_number \in 0..1 :
               /\ SayLocked(id)
               /\ players' = players
               /\ last' = Record("resolve_hand", id, <<hand_number>>,
                                 "NotStarted")
       ELSE \E possible_hands \in {find_possible_hands(players[id])} :
            \E hand_number \in 0..(Len(possible_hands) + 1) :
            \E o \in resolve_hand(players[id], possible_hands, hand_number) :
               /\ players' = Insert(players, id, o.ps)
               /\ last' = Record("resolve_hand", id, <<hand_number>>, o.res)
               /\ IF o.res = Ok THEN SayUnlocked(id)
                  ELSE IF o.res \in Rejections THEN SayLocked(id)
                  ELSE Returned(id)

\* A reply after which the handler keeps the lock.
Reply_keeps_lock(id) ==
    /\ pc[id] = "say"
    /\ pc' = [pc EXCEPT ![id] = "idle"]
    /\ UNCHANGED <<players, dirty, disk, tmp, lock, last, cmds>>

\* `ctx.say(..).await` completes (or fails) and the handler returns, which
\* drops the guard if it is still alive.
Reply(id) ==
    /\ pc[id] = "say"
    /\ pc' = [pc EXCEPT ![id] = "idle"]
    /\ lock' = IF lock = id THEN Free ELSE lock
    /\ UNCHANGED <<players, dirty, disk, tmp, last, cmds>>

WriteFailed == "temp file write failed"
RenameFailed == "rename failed"

\* save_state that writes the snapshot file in place.
save_state_in_place(map, is_dirty, file, temp) ==
    IF ~is_dirty
    THEN { [disk |-> file, tmp |-> temp, dirty |-> is_dirty, res |-> Ok] }
    ELSE { [disk |-> <<Snapshot(map)>>, tmp |-> temp, dirty |-> FALSE,
            res |-> Ok],
           [disk |-> <<Partial>>, tmp |-> temp, dirty |-> is_dirty,
            res |-> WriteFailed] }

\* save_state without its dirty check.
save_state_always(map, is_dirty, file, temp) ==
    { [disk |-> <<Snapshot(map)>>, tmp |-> <<>>, dirty |-> FALSE, res |-> Ok],
      [disk |-> file, tmp |-> <<Partial>>, dirty |-> is_dirty,
       res |-> WriteFailed],
      [disk |-> file, tmp |-> <<Snapshot(map)>>, dirty |-> is_dirty,
       res |-> RenameFailed] }

\* save_state that clears the flag before the write and the rename.
save_state_clears(map, is_dirty, file, temp) ==
    IF ~is_dirty
    THEN { [disk |-> file, tmp |-> temp, dirty |-> is_dirty, res |-> Ok] }
    ELSE { [disk |-> <<Snapshot(map)>>, tmp |-> <<>>, dirty |-> FALSE,
            res |-> Ok],
           [disk |-> file, tmp |-> <<Partial>>, dirty |-> FALSE,
            res |-> WriteFailed],
           [disk |-> file, tmp |-> <<Snapshot(map)>>, dirty |-> FALSE,
            res |-> RenameFailed] }

\* PlayerStateManager::save_state: every outcome of one call, as the files
\* and the dirty flag it leaves and the result it returns.  The write of the
\* temp file or the rename may fail.
save_state(map, is_dirty, file, temp) ==
    IF ~is_dirty
    THEN { [disk |-> file, tmp |-> temp, dirty |-> is_dirty, res |-> Ok] }
    ELSE { [disk |-> <<Snapshot(map)>>, tmp |-> <<>>, dirty |-> FALSE,
            res |-> Ok],
           [disk |-> file, tmp |-> temp, dirty |-> is_dirty,
            res |-> WriteFailed],
           [disk |-> file, tmp |-> <<Partial>>, dirty |-> is_dirty,
            res |-> WriteFailed],
           [disk |-> file, tmp |-> <<Snapshot(map)>>, dirty |-> is_dirty,
            res |-> RenameFailed] }

SaveState ==
    \E o \in save_state(players, dirty, disk, tmp) :
        /\ tmp' = o.tmp
        /\ disk' = o.disk
        /\ dirty' = o.dirty

\* An autosave tick that does not take the lock.
AutoSave_unlocked ==
    /\ dirty
    /\ SaveState
    /\ UNCHANGED <<players, lock, pc, last, cmds>>

\* One tick of the autosave task: save_if_needed takes the lock and saves
\* when dirty.
AutoSave ==
    /\ lock = Free
    /\ dirty
    /\ SaveState
    /\ UNCHANGED <<players, lock, pc, last, cmds>>

\* Direct calls of the engine interface on a started player.
CanCall(id) ==
    /\ pc[id] = "idle"
    /\ lock = Free
    /\ cmds < MaxCalls
    /\ id \in DOMAIN players

DrawToHand(id, num_cards) ==
    /\ CanCall(id)
    /\ cmds' = cmds + 1
    /\ UNCHANGED <<dirty, disk, tmp, lock, pc>>
    /\ \E o \in draw_to_hand(players[id], num_cards) :
          /\ players' = Insert(players, id, o.ps)
          /\ last' = Record("draw_to_hand", id, <<num_cards>>, o.res)

DiscardFromHand(id, card_index) ==
    /\ CanCall(id)
    /\ cmds' = cmds + 1
    /\ UNCHANGED <<dirty, disk, tmp, lock, pc>>
    /\ LET o == discard_from_hand(players[id], card_index)
       IN  /\ players' = Insert(players, id, o.ps)
           /\ last' = Record("discard_from_hand", id, <<card_index>>, o.res)

\* The bot: the five commands, their replies and the autosave task.
Next ==
    \/ \E id \in UserIds : StartNewCombat(id)
    \/ \E id \in UserIds : \E positions \in Positions : Mulligan(id, positions)
    \/ \E id \in UserIds : ViewHand(id)
    \/ \E id \in UserIds : ViewPossibleResolutions(id)
    \/ \E id \in UserIds : ResolveHand(id)
    \/ \E id \in UserIds : Reply(id)
    \/ AutoSave

Spec == Init /\ [][Next]_vars

\* The engine interface of one player: start_new_combat and direct
\* draw_to_hand and discard_from_hand calls with any argument.
EngineUser == CHOOSE id \in UserIds : \A other \in UserIds : id <= other

NextEngine ==
    \/ StartNewCombat(EngineUser)
    \/ Reply(EngineUser)
    \/ \E n \in 0..MaxDraw : DrawToHand(EngineUser, n)
    \/ \E i \in 0..HandTarget : DiscardFromHand(EngineUser, i)

SpecEngine == Init /\ [][NextEngine]_vars

\* One player under every operation that changes a PlayerState: the engine
\* calls and the mulligan and resolve_hand commands.
NextPlayer ==
    \/ StartNewCombat(EngineUser)
    \/ Reply(EngineUser)
    \/ \E n \in 0..MaxDraw : DrawToHand(EngineUser, n)
    \/ \E i \in 0..HandTarget : DiscardFromHand(EngineUser, i)
    \/ \E positions \in Positions : Mulligan(EngineUser, positions)
    \/ ResolveHand(EngineUser)

SpecPlayer == Init /\ [][NextPlayer]_vars

(***************************************************************************)
(* The store over the life of the process: start_new_combat in its two     *)
(* steps under the lock, save_state called directly, the process killed    *)
(* and started again.                                                      *)
(***************************************************************************)
Down == \A u \in UserIds : pc[u] = "down"

Up == \A u \in UserIds : pc[u] # "down"

\* start_new_combat up to PlayerStateManager::start_new_combat: the handler
\* takes the lock, inserts a fresh state and marks the store dirty.
BeginCombat(id) ==
    /\ CanRun(id)
    /\ cmds' = cmds + 1
    /\ \E fresh \in PlayerStateNew :
          players' = start_new_combat(players, id, fresh)
    /\ dirty' = TRUE
    /\ lock' = id
    /\ pc' = [pc EXCEPT ![id] = "draw"]
    /\ last' = Record("start_new_combat", id, <<>>, Ok)
    /\ UNCHANGED <<disk, tmp>>

\* start_new_combat from draw_to_hand(5)? on: the draw, then the guard is
\* dropped and the hand is sent.
DrawFive(id) ==
    /\ pc[id] = "draw"
    /\ \E o \in draw_to_hand(players[id], StartDraw) :
          /\ players' = Insert(players, id, o.ps)
          /\ IF o.res = Ok THEN SayUnlocked(id)
             ELSE pc' = [pc EXCEPT ![id] = "idle"] /\ lock' = Free
          /\ last' = [last EXCEPT !.res = o.res]
    /\ UNCHANGED <<dirty, disk, tmp, cmds>>

\* A direct call of save_state by a caller that holds the store; the files
\* as they were before the call are recorded.
SaveStateCall ==
    /\ Up
    /\ lock = Free
    /\ cmds < MaxCmds
    /\ cmds' = cmds + 1
    /\ \E o \in save_state(players, dirty, disk, tmp) :
          /\ tmp' = o.tmp
          /\ disk' = o.disk
          /\ dirty' = o.dirty
          /\ last' = Record("save_state", 0, <<disk, tmp>>, o.res)
    /\ UNCHANGED <<players, lock, pc>>

\* The files a process leaves when it dies: as they are, or as save_state
\* has them at any of its points when the autosave task was inside it.
KillPoints ==
    {[disk |-> disk, tmp |-> tmp]}
    \cup { [disk |-> o.disk, tmp |-> o.tmp] :
             o \in IF lock = Free
                   THEN save_state(players, dirty, disk, tmp)
                   ELSE {} }

\* The process dies: the store in memory is gone, the files stay.
Kill ==
    /\ Up
    /\ cmds < MaxCmds
    /\ cmds' = cmds + 1
    /\ \E f \in KillPoints : tmp' = f.tmp /\ disk' = f.disk
    /\ players' = <<>>
    /\ dirty' = FALSE
    /\ lock' = Free
    /\ pc' = [u \in UserIds |-> "down"]
    /\ last' = Record("kill", 0, <<>>, Ok)

ParseFailed == "parse error"

\* fs::read_to_string("player_state.json"): the content, or an error (the
\* file is absent or cannot be read), as an Option.
ReadToString == {<<>>} \cup (IF disk = <<>> THEN {} ELSE {disk})

\* PlayerStateManager::new: no players, not dirty.
PlayerStateManagerNew == [players |-> <<>>, dirty |-> FALSE]

\* PlayerStateManager::load_state on what read_to_string returned: the
\* Result, with the store as an Option that is empty on Err.
load_state(read) ==
    IF read = <<>>
    THEN [store |-> <<PlayerStateManagerNew>>, res |-> Ok]
    ELSE LET parsed == Parse(read[1])
         IN  IF parsed = <<>>
             THEN [store |-> <<>>, res |-> ParseFailed]
             ELSE [store |-> <<[players |-> parsed[1], dirty |-> FALSE]>>,
                   res |-> Ok]

\* main with `load_state()?` in place of the fallback.
Startup_propagate(read) == load_state(read).store

\* main: load_state().unwrap_or_else(|e| PlayerStateManager::new()), as an
\* Option that would be empty if main returned before building the store.
Startup(read) ==
    LET loaded == load_state(read)
    IN  IF loaded.res = Ok THEN loaded.store ELSE <<PlayerStateManagerNew>>

\* The process starts: main builds the store, then the commands and the
\* autosave task run.
Main ==
    /\ Down
    /\ \E read \in ReadToString :
          LET started == Startup(read)
          IN  /\ players' = IF started = <<>> THEN players
                            ELSE started[1].players
              /\ dirty' = IF started = <<>> THEN dirty ELSE started[1].dirty
              /\ pc' = IF started = <<>> THEN pc
                       ELSE [u \in UserIds |-> "idle"]
              /\ last' = Record("load_state", 0, read, load_state(read).res)
    /\ lock' = Free
    /\ UNCHANGED <<disk, tmp, cmds>>

\* The snapshot file is damaged while the process is down.
Tamper ==
    /\ Down
    /\ disk # <<>>
    /\ disk' = <<Partial>>
    /\ UNCHANGED <<players, dirty, tmp, lock, pc, last, cmds>>

\* Mulligan arguments of one token: the first card, the last card, and a
\* position past the hand.
OnePosition == { <<1>>, <<HandTarget>>, <<HandTarget + 1>> }

NextStore ==
    \/ \E id \in UserIds : BeginCombat(id)
    \/ \E id \in UserIds : DrawFive(id)
    \/ \E id \in UserIds : \E positions \in OnePosition : Mulligan(id, positions)
    \/ \E id \in UserIds : Reply(id)
    \/ AutoSave
    \/ SaveStateCall
    \/ Kill
    \/ Main

SpecStore == Init /\ [][NextStore]_vars

\* The store when the snapshot file may be found damaged at startup.
NextBoot == NextStore \/ Tamper

SpecBoot == Init /\ [][NextBoot]_vars

\* One player's commands and the autosave task, scheduled fairly: a reply
\* that is being sent completes, and the autosave task, which ticks every
\* 30 seconds and queues for the lock, gets it and has its write succeed
\* whenever that is possible again and again.
NextLive ==
    \/ StartNewCombat(EngineUser)
    \/ \E positions \in OnePosition : Mulligan(EngineUser, positions)
    \/ Reply(EngineUser)
    \/ AutoSave

SpecLive ==
    /\ Init
    /\ [][NextLive]_vars
    /\ WF_vars(Reply(EngineUser))
    /\ SF_vars(AutoSave /\ ~dirty')

(***************************************************************************)
(* The combo detector on the hands a player can hold: any cards of the new *)
(* deck, with the rest of the cards in the deck.                           *)
(***************************************************************************)
\* The places of s where s steps down (up = FALSE) or up (up = TRUE) to
\* the next place, the last place stepping to the first.
Turns(s, up) ==
    { a \in 1..Len(s) :
        LET b == (a % Len(s)) + 1
        IN  IF up THEN s[a] < s[b] ELSE s[a] > s[b] }

\* The deck positions dealt into a hand, in hand order: any cards of the
\* deck, in deck order or in reverse deck order, cut at any place.
Deals ==
    { s \in UNION { [1..n -> 1..DeckSize] : n \in 0..HandTarget } :
        /\ \A a, b \in 1..Len(s) : a # b => s[a] # s[b]
        /\ \/ Cardinality(Turns(s, FALSE)) <= 1
           \/ Cardinality(Turns(s, TRUE)) <= 1 }

\* The cards of cards at the positions not in the set taken, in order.
RECURSIVE Rest(_, _, _)
Rest(cards, taken, n) ==
    IF n > Len(cards) THEN <<>>
    ELSE (IF n \in taken THEN <<>> ELSE <<cards[n]>>)
         \o Rest(cards, taken, n + 1)

\* A player in combat holding the dealt cards.
Dealt(s) ==
    PlayerState(Rest(DeckNew, { s[n] : n \in 1..Len(s) }, 1),
                [n \in 1..Len(s) |-> DeckNew[s[n]]],
                <<>>)

InitHands ==
    /\ \E s \in Deals : players = Insert(<<>>, EngineUser, Dealt(s))
    /\ dirty = TRUE
    /\ disk = <<>>
    /\ tmp = <<>>
    /\ lock = Free
    /\ pc = [u \in UserIds |-> "idle"]
    /\ last = [op |-> "none", id |-> 0, arg |-> <<>>, pre |-> <<>>,
               pre_dirty |-> FALSE, post_dirty |-> FALSE, res |-> Ok]
    /\ cmds = 0

NextHands ==
    \/ ViewPossibleResolutions(EngineUser)
    \/ Reply(EngineUser)

SpecHands == InitHands /\ [][NextHands]_vars

(***************************************************************************)
(* The claims.                                                             *)
(***************************************************************************)
Range(s) == { s[n] : n \in 1..Len(s) }

\* The cards of a sequence with their multiplicities (the two jokers are
\* equal values).
BagOf(s) == [c \in Range(s) |-> Cardinality({ n \in 1..Len(s) : s[n] = c })]

\* The hand without the cards at the 0-based indices, in order.
Without(hand, indices) ==
    LET keep == { n \in 1..Len(hand) : (n - 1) \notin Range(indices) }
        pos[m \in 0..Len(hand)] ==
            IF m = 0 THEN <<>>
            ELSE IF m \in keep THEN Append(pos[m - 1], hand[m])
                 ELSE pos[m - 1]
    IN  pos[Len(hand)]

\* The cards at the 0-based indices.
CardsAt(hand, indices) == [n \in 1..Len(indices) |-> hand[indices[n] + 1]]

IsDescending(s) == \A n \in 1..(Len(s) - 1) : s[n] > s[n + 1]

\* The last operation was `op`, on a player who had started.
LastOn(op) == last.op = op /\ last.id \in DOMAIN last.pre

PreState == last.pre[last.id]
PostState == players[last.id]

\* The last operation was a resolve_hand with a listed hand number.
ResolvedCombo ==
    /\ LastOn("resolve_hand")
    /\ last.arg[1] >= 1
    /\ last.arg[1] <= Len(find_possible_hands(PreState))

ChosenCombo == find_possible_hands(PreState)[last.arg[1]]

\* C1: in every state reached from start_new_combat by draw_to_hand,
\* discard_from_hand, mulligan and resolve_hand operations, failed ones
\* included, the player's deck, hand and discard together hold exactly the
\* cards of the fresh deck (each numbered card in exactly one of the three),
\* so |deck| + |hand| + |discard| is the deck size (30 with all 7 ranks).
CardsConserved ==
    \A id \in DOMAIN players :
        LET ps == players[id]
        IN  /\ BagOf(ps.deck \o ps.hand \o ps.discard) = BagOf(DeckNew)
            /\ Len(ps.deck) + Len(ps.hand) + Len(ps.discard) = DeckSize

\* C1 witness: an operation has just failed part-way and the three piles
\* are all non-empty.
CardsConservedWitness ==
    /\ LastOn("mulligan")
    /\ last.res = ErrIndex
    /\ PostState.deck # <<>>
    /\ PostState.hand # <<>>
    /\ PostState.discard # <<>>

\* C2: resolving any listed combo of a 5-card hand processes the combo's
\* indices in descending order, no discard fails with IndexOutOfBounds, and
\* exactly the cards at those indices leave the hand.
ResolveDiscardsDescending ==
    (ResolvedCombo /\ Len(PreState.hand) = HandTarget) =>
        /\ IsDescending(Reverse(ChosenCombo.card_indices))
        /\ last.res # ErrIndex
        /\ SubSeq(PostState.hand, 1,
                  HandTarget - Len(ChosenCombo.card_indices))
              = Without(PreState.hand, ChosenCombo.card_indices)

\* C3: resolving a listed combo of k cards from a 5-card hand ends with 5
\* cards in hand and the k consumed cards in discard.
ResolveRefillsHand ==
    (ResolvedCombo /\ Len(PreState.hand) = HandTarget) =>
        /\ Len(PostState.hand) = HandTarget
        /\ LET used == BagOf(CardsAt(PreState.hand, ChosenCombo.card_indices))
               pile == BagOf(PostState.discard)
           IN  \A c \in DOMAIN used :
                   c \in DOMAIN pile /\ used[c] <= pile[c]

\* The store equals the last durable snapshot (or nothing was ever saved
\* and nothing is stored).
InSync ==
    \/ disk = <<>> /\ players = <<>>
    \/ disk = <<Snapshot(players)>>

\* C4: whenever the store differs from the last durable snapshot the dirty
\* flag is set.
DirtyWhenUnsaved == ~InSync => dirty

\* C5: a draw_to_hand call that needs a card when the deck is empty (at
\* call time, or after popping what the deck held) and the discard pile is
\* not, moves the whole discard pile into the deck, leaving discard empty,
\* and draws: the next card of the hand comes from the former discard pile,
\* and the cards drawn after the recycle together with the new deck are
\* that pile.
RecycleOnEmptyDeck ==
    (/\ LastOn("draw_to_hand")
     /\ last.arg[1] > Len(PreState.deck)
     /\ PreState.discard # <<>>) =>
        LET popped == Len(PreState.hand) + Len(PreState.deck)
        IN  /\ PostState.discard = <<>>
            /\ Len(PostState.hand) > popped
            /\ SubSeq(PostState.hand, 1, popped)
                  = PreState.hand \o Reverse(PreState.deck)
            /\ PostState.hand[popped + 1] \in Range(PreState.discard)
            /\ BagOf(PostState.deck
                     \o SubSeq(PostState.hand, popped + 1,
                               Len(PostState.hand)))
                  = BagOf(PreState.discard)

\* C5 witness: a successful draw that asked for more cards than the deck
\* held, with two or more cards in the discard pile.
RecycleOnEmptyDeckWitness ==
    /\ LastOn("draw_to_hand")
    /\ last.res = Ok
    /\ last.arg[1] > Len(PreState.deck)
    /\ Len(PreState.discard) >= 2

\* C6: draw_to_hand(n) returns Ok exactly when n <= |deck| + |discard| at
\* call time, and then the hand grew by n; otherwise it returns the
\* exhausted-supply error, the hand has grown by the |deck| + |discard|
\* cards drawn before the failure, and deck and discard are empty.
DrawResult ==
    LastOn("draw_to_hand") =>
        LET n      == last.arg[1]
            supply == Len(PreState.deck) + Len(PreState.discard)
        IN  /\ last.res = Ok <=> n <= supply
            /\ SubSeq(PostState.hand, 1, Len(PreState.hand)) = PreState.hand
            /\ last.res = Ok =>
                  Len(PostState.hand) = Len(PreState.hand) + n
            /\ last.res # Ok =>
                  /\ last.res = ErrExhausted
                  /\ Len(PostState.hand) = Len(PreState.hand) + supply
                  /\ PostState.deck = <<>>
                  /\ PostState.discard = <<>>

\* C6 witness: a draw failed after drawing cards of the deck and, through a
\* recycle, of the discard pile.
DrawResultWitness ==
    /\ LastOn("draw_to_hand")
    /\ last.res = ErrExhausted
    /\ PreState.deck # <<>>
    /\ PreState.discard # <<>>

\* C7: discard_from_hand(index) fails with the index error, changing
\* nothing, exactly when index >= hand.len(); otherwise it removes
\* hand[index], appends it as the last card of discard, keeps the order of
\* the other hand cards and leaves the deck alone.
DiscardResult ==
    LastOn("discard_from_hand") =>
        LET i == last.arg[1]
        IN  /\ last.res = ErrIndex <=> i >= Len(PreState.hand)
            /\ last.res = ErrIndex => PostState = PreState
            /\ last.res # ErrIndex =>
                  /\ last.res = Ok
                  /\ PostState.deck = PreState.deck
                  /\ PostState.discard
                        = PreState.discard \o <<PreState.hand[i + 1]>>
                  /\ Len(PostState.hand) = Len(PreState.hand) - 1
                  /\ \A n \in 1..Len(PostState.hand) :
                        PostState.hand[n]
                           = PreState.hand[IF n <= i THEN n ELSE n + 1]

\* C7 witness: a card inside the hand was discarded onto a non-empty
\* discard pile.
DiscardResultWitness ==
    /\ LastOn("discard_from_hand")
    /\ last.res = Ok
    /\ last.arg[1] > 0
    /\ last.arg[1] < Len(PreState.hand) - 1
    /\ PreState.discard # <<>>

\* C8: a resolve_hand either succeeds, with the hand redrawn to 5, or fails
\* and leaves the player's deck, hand and discard exactly as they were: no
\* failure leaves a partly discarded hand.
ResolveIsAtomic ==
    LastOn("resolve_hand") =>
        IF last.res = Ok
        THEN Len(PostState.hand) = HandTarget
        ELSE PostState = PreState

\* C9: resolve_hand with hand number 0 or one above the number of detected
\* combos is rejected as an invalid hand number and leaves the store and
\* the dirty flag as they were.
InvalidSelectionRejected ==
    (/\ LastOn("resolve_hand")
     /\ \/ last.arg[1] = 0
        \/ last.arg[1] > Len(find_possible_hands(PreState))) =>
        /\ last.res = "InvalidHandNumber"
        /\ players = last.pre
        /\ last.post_dirty = last.pre_dirty

\* C9 witness: a hand number above a non-empty list was rejected while the
\* store was clean.
InvalidSelectionRejectedWitness ==
    /\ LastOn("resolve_hand")
    /\ last.arg[1] > Len(find_possible_hands(PreState))
    /\ find_possible_hands(PreState) # <<>>
    /\ ~last.pre_dirty

\* C10: no handler holds the store lock while it is sending its reply.
NoLockWhileReplying == \A id \in UserIds : pc[id] = "say" => lock # id

\* C11: under any interleaving of the autosave task with the commands, the
\* snapshot file changes only while no handler stands between
\* start_new_combat's insert and its draw, and what is written is the store
\* as it stands then, between two critical sections.
SnapshotsAreQuiescent ==
    [][disk' # disk =>
          /\ \A id \in UserIds : pc[id] # "draw"
          /\ lock = Free
          /\ disk' = <<Snapshot(players)>>]_vars

\* C11 witness: a handler stands between its insert and its draw, with a
\* fresh state that has an empty hand, while a snapshot written earlier is
\* on disk.
SnapshotsAreQuiescentWitness ==
    /\ disk # <<>>
    /\ \E id \in UserIds :
          /\ pc[id] = "draw"
          /\ dirty
          /\ players[id].hand = <<>>
          /\ Parse(disk[1]) # <<players>>

\* C12: at every point of save_state, a crash or a failed write included,
\* the snapshot file is absent or a complete serialization, and it is only
\* ever replaced by a complete serialization of the store being saved.
DurableSnapshotIsComplete ==
    /\ [](disk # <<>> => disk[1].complete /\ Parse(disk[1]) # <<>>)
    /\ [][disk' # disk => dirty /\ disk' = <<Snapshot(players)>>]_vars

\* C12 witness: the process died inside save_state with a partly written
\* temp file, and the snapshot of an earlier save is still in place.
DurableSnapshotIsCompleteWitness ==
    /\ Down
    /\ disk # <<>>
    /\ tmp = <<Partial>>

\* C13: a save_state call on a store that is not dirty writes nothing,
\* leaves the flag clear and returns Ok; a call on a dirty store that
\* returns Ok has written the snapshot and cleared the flag.
SecondSaveIsNoOp ==
    last.op = "save_state" =>
        /\ ~last.pre_dirty =>
              /\ disk = last.arg[1]
              /\ tmp = last.arg[2]
              /\ last.res = Ok
              /\ ~dirty
        /\ (last.pre_dirty /\ last.res = Ok) =>
              /\ disk = <<Snapshot(players)>>
              /\ ~dirty

\* C13 witness: save_state was called on a store that an earlier save had
\* written and left clean.
SecondSaveIsNoOpWitness ==
    /\ last.op = "save_state"
    /\ ~last.pre_dirty
    /\ players # <<>>
    /\ disk = <<Snapshot(players)>>
    /\ last.arg[1] = disk

\* C14: a save_state call whose write or rename failed returns the error,
\* leaves the players map as it was and the dirty flag set, so that the
\* autosave task tries again; while the process runs, the flag is cleared
\* only by a step that puts the complete snapshot of the store in place.
SaveFailureKeepsDirty ==
    /\ [](last.op = "save_state" /\ last.res # Ok =>
             /\ last.res \in {WriteFailed, RenameFailed}
             /\ last.pre_dirty
             /\ last.post_dirty
             /\ players = last.pre)
    /\ [][dirty /\ ~dirty' /\ Up' =>
             /\ players' = players
             /\ disk' = <<Snapshot(players)>>
             /\ tmp' = <<>>]_vars

\* C14 witness: the rename of a save_state call failed; the store is still
\* dirty and the temp file holds the snapshot that could not be moved.
SaveFailureKeepsDirtyWitness ==
    /\ last.op = "save_state"
    /\ last.res = RenameFailed
    /\ dirty
    /\ players # <<>>
    /\ tmp = <<Snapshot(players)>>
    /\ disk # tmp

\* C15: when the snapshot file cannot be read or its content cannot be
\* parsed, startup does not fail: the process runs with a store that has no
\* players and a clear dirty flag.
LoadFallsBack ==
    (/\ last.op = "load_state"
     /\ \/ last.arg = <<>>
        \/ Parse(last.arg[1]) = <<>>)
    => /\ Up
       /\ players = <<>>
       /\ ~dirty

\* C15 witness: startup found a snapshot file whose content does not parse
\* and the process is running.
LoadFallsBackWitness ==
    /\ last.op = "load_state"
    /\ last.arg # <<>>
    /\ last.res = ParseFailed
    /\ Up

StartResetsPlayer ==
    \A id \in UserIds :
        pc[id] = "draw" =>
            /\ id \in DOMAIN players
            /\ players[id].hand = <<>>
            /\ players[id].discard = <<>>
            /\ Len(players[id].deck) = Len(Suits) * NumRanks + NumJokers
            /\ BagOf(players[id].deck) = BagOf(DeckNew)
            /\ dirty

\* C17 witness: start_new_combat has just replaced an entry that held
\* discarded cards, on a store that was not dirty.
StartResetsPlayerWitness ==
    \E id \in UserIds :
        /\ pc[id] = "draw"
        /\ last.op = "start_new_combat"
        /\ id \in DOMAIN last.pre
        /\ last.pre[id].discard # <<>>
        /\ ~last.pre_dirty

\* C18: the set of ids in the store changes only by start_new_combat
\* adding its own id; no command or save creates an entry for another id
\* and none removes an entry.
IdsOnlyGrowByStart ==
    [][DOMAIN players' # DOMAIN players =>
          /\ last'.op = "start_new_combat"
          /\ DOMAIN players' = DOMAIN players \cup {last'.id}]_vars

\* C18 witness: a command other than start_new_combat has run for an id
\* that has no entry, in a store that holds another player, and the id
\* still has no entry.
IdsOnlyGrowByStartWitness ==
    /\ last.op \in {"mulligan", "view_hand", "view_possible_resolutions",
                    "resolve_hand"}
    /\ last.id \notin DOMAIN players
    /\ players # <<>>
    /\ disk # <<>>

\* C19: a command of one player leaves the deck, hand and discard of every
\* other player as they were before it.
PlayersIndependent ==
    last.op # "none" =>
        \A b \in DOMAIN last.pre :
            b # last.id => b \in DOMAIN players /\ players[b] = last.pre[b]

\* C19 witness: with two players in the store, the last command changed
\* the state of the player who issued it.
PlayersIndependentWitness ==
    /\ Cardinality(DOMAIN last.pre) = 2
    /\ last.id \in DOMAIN last.pre
    /\ players[last.id] # last.pre[last.id]

\* C20: under fair scheduling of the autosave task with writes that do not
\* fail forever, a dirty store is eventually saved and its flag cleared;
\* while the store is not dirty no file is written.
AutosaveEventuallySaves ==
    /\ dirty ~> (~dirty /\ disk = <<Snapshot(players)>>)
    /\ [][~dirty => UNCHANGED <<disk, tmp>>]_vars

\* C20 witness: the autosave task has saved a store that start_new_combat
\* had made dirty, after a write of its temp file had failed.
AutosaveEventuallySavesWitness ==
    /\ ~dirty
    /\ players # <<>>
    /\ disk = <<Snapshot(players)>>

\* The combos find_possible_hands reports for a player, as a set of
\* <<place in the list, combo>>.
Reported(id) ==
    LET possible == find_possible_hands(players[id])
    IN  { <<n, possible[n]>> : n \in 1..Len(possible) }

HasJoker(hand) == \E n \in 1..Len(hand) : hand[n].num = <<>>

\* C21: every Jackpot that find_possible_hands reports consists of four
\* different cards of the hand that are all numbered and of one rank, the
\* value reported; no group with a wildcard is a Jackpot.
JackpotHasNoWildcard ==
    \A id \in DOMAIN players :
        \A reported \in {Reported(id)} : \A r \in reported :
            r[2].kind = "Jackpot" =>
                LET at == r[2].card_indices
                    hand == players[id].hand
                IN  /\ Len(at) = 4
                    /\ \A a, b \in 1..4 : a # b => at[a] # at[b]
                    /\ \A a \in 1..4 :
                          /\ at[a] < Len(hand)
                          /\ hand[at[a] + 1].num = <<r[2].value>>

\* C21 witness: find_possible_hands has run on a hand that holds a joker
\* next to four cards of one rank, and reports a Jackpot.
JackpotHasNoWildcardWitness ==
    /\ last.op = "view_possible_resolutions"
    /\ \E id \in DOMAIN players :
          /\ HasJoker(players[id].hand)
          /\ \E r \in Reported(id) : r[2].kind = "Jackpot"

\* C22: every DoubleTrouble that find_possible_hands reports has two
\* different pair values and four pairwise different card indices; two
\* pairs of one value, a pair of jokers (7) next to a pair of 7s included,
\* are never a DoubleTrouble.
DoubleTroubleValuesDiffer ==
    \A id \in DOMAIN players :
        \A reported \in {Reported(id)} : \A r \in reported :
            r[2].kind = "DoubleTrouble" =>
                LET at == r[2].card_indices
                IN  /\ r[2].first_pair_value # r[2].second_pair_value
                    /\ Len(at) = 4
                    /\ \A a, b \in 1..4 : a # b => at[a] # at[b]
                    /\ \A a \in 1..4 : at[a] < Len(players[id].hand)

\* C22 witness: find_possible_hands has run on a hand that holds both
\* jokers and two 7s, and reports a DoubleTrouble.
DoubleTroubleValuesDifferWitness ==
    /\ last.op = "view_possible_resolutions"
    /\ \E id \in DOMAIN players :
          LET hand == players[id].hand
          IN  /\ Cardinality({ n \in 1..Len(hand) : hand[n].num = <<>> }) = 2
              /\ Cardinality({ n \in 1..Len(hand) :
                                  hand[n].num = <<MaxRank>> }) >= 2
              /\ \E r \in Reported(id) : r[2].kind = "DoubleTrouble"

\* The groups of two and of three places of a hand, as 0-based indices in
\* rising order.
Groups(hand) ==
    LET n == Len(hand)
    IN  { <<i, j>> : i \in 0..(n - 1), j \in 0..(n - 1) } \cup
        { <<i, j, k>> : i \in 0..(n - 1), j \in 0..(n - 1), k \in 0..(n - 1) }

Rising(at) == \A a \in 1..(Len(at) - 1) : at[a] < at[a + 1]

\* The ranks of the numbered cards of a group.
RanksAt(hand, at) ==
    { hand[at[a] + 1].num[1] : a \in { b \in 1..Len(at) :
                                          hand[at[b] + 1].num # <<>> } }

WildAt(hand, at) == \E a \in 1..Len(at) : hand[at[a] + 1].num = <<>>

KindOf(at) == IF Len(at) = 3 THEN "TripleThreat" ELSE "MatchedEdge"

\* Every matching group of two or three cards with a wildcard is reported
\* with the common rank of its numbered cards (default if it has none) and
\* the element list elements.
WildcardGroups(elements, default) ==
    \A id \in DOMAIN players :
        LET hand == players[id].hand
        IN  \A reported \in {Reported(id)} : \A at \in Groups(hand) :
                (Rising(at) /\ WildAt(hand, at)
                    /\ Cardinality(RanksAt(hand, at)) <= 1) =>
                    /\ \E r \in reported :
                          /\ r[2].kind = KindOf(at)
                          /\ r[2].card_indices = at
                    /\ \A r \in reported :
                          (r[2].kind = KindOf(at) /\ r[2].card_indices = at) =>
                              /\ r[2].suits = elements
                              /\ \A rank \in RanksAt(hand, at) :
                                    r[2].value = rank
                              /\ RanksAt(hand, at) = {} => r[2].value = default

\* check_triple on {4 Fire, 4 Ice, wildcard}.
TripleOfFours ==
    check_triple(<<Card(<<4>>, "Fire"), Card(<<4>>, "Ice"), Joker>>, 0, 1, 2)

\* C23: every matching group of two or three cards with a wildcard is
\* reported with the common rank of its numbered cards (7 when all are
\* wildcards) and the element list [Air, Earth, Fire, Ice], whatever the
\* suits of its numbered cards; check_triple on {4 Fire, 4 Ice, wildcard}
\* returns value 4 and the elements [Air, Earth, Fire, Ice].
WildcardGivesAllElements ==
    /\ WildcardGroups(<<"Air", "Earth", "Fire", "Ice">>, 7)
    /\ Len(TripleOfFours) = 1
    /\ TripleOfFours[1].value = 4
    /\ TripleOfFours[1].suits = <<"Air", "Earth", "Fire", "Ice">>

\* C23 as stated: the same with the element list [Fire, Earth, Ice, Air].
WildcardGivesListAsStated ==
    /\ WildcardGroups(<<"Fire", "Earth", "Ice", "Air">>, 7)
    /\ Len(TripleOfFours) = 1
    /\ TripleOfFours[1].value = 4
    /\ TripleOfFours[1].suits = <<"Fire", "Earth", "Ice", "Air">>

\* C23 witness: find_possible_hands has run on a hand with a joker, a Fire
\* card and an Ice card of one rank, and reports their TripleThreat.
WildcardGivesAllElementsWitness ==
    /\ last.op = "view_possible_resolutions"
    /\ \E id \in DOMAIN players :
          LET hand == players[id].hand
          IN  \E r \in Reported(id) :
                  /\ r[2].kind = "TripleThreat"
                  /\ WildAt(hand, r[2].card_indices)
                  /\ { hand[r[2].card_indices[a] + 1].element : a \in 1..3 }
                        = {"Fire", "Ice", "None"}

\* The two pairs of a DoubleTrouble, whatever their order.
PairsOf(combo) ==
    { {combo.card_indices[1], combo.card_indices[2]},
      {combo.card_indices[3], combo.card_indices[4]} }

\* C24: no two DoubleTrouble results of one hand consist of the same two
\* pairs of cards.
DoubleTroubleReportedOnce ==
    \A id \in DOMAIN players :
        \A reported \in {Reported(id)} : \A r, q \in reported :
            (r[2].kind = "DoubleTrouble" /\ q[2].kind = "DoubleTrouble"
                /\ r[1] # q[1]) => PairsOf(r[2]) # PairsOf(q[2])

\* The commands that draw cards.
DrawingCommands == {"start_new_combat", "mulligan", "resolve_hand"}

\* C25: on a store that began empty, no start_new_combat, mulligan or
\* resolve_hand command ends with the exhausted-supply error of
\* draw_to_hand, and every player's deck and discard pile together hold at
\* least the cards that refilling the hand to five takes.
CommandsNeverExhaust ==
    /\ last.op \in DrawingCommands => last.res # ErrExhausted
    /\ \A id \in DOMAIN players :
          LET ps == players[id]
          IN  Len(ps.deck) + Len(ps.discard) + Len(ps.hand) >= HandTarget

\* C25 witness: a command has drawn more cards than the deck held, through
\* a recycle of the discard pile, and succeeded.
CommandsNeverExhaustWitness ==
    /\ last.op \in DrawingCommands
    /\ last.id \in DOMAIN last.pre
    /\ last.res = Ok
    /\ Len(PostState.deck) > Len(PreState.deck)
    /\ PostState.discard = <<>>

\* C26: on a store that began empty, after any start_new_combat, mulligan
\* and resolve_hand commands, those that fail part-way included, every
\* player's hand has at most 5 cards, and no resolve_hand has met an
\* overflow in `5 - hand.len()`.
HandAtMostFive ==
    /\ \A id \in DOMAIN players : Len(players[id].hand) <= HandTarget
    /\ last.res # "panic"

\* C26 witness: a resolve_hand has failed part-way, leaving the player with
\* fewer than 5 cards in hand.
HandAtMostFiveWitness ==
    /\ LastOn("resolve_hand")
    /\ last.res = ErrIndex
    /\ Len(PostState.hand) < Len(PreState.hand)
    /\ Len(PostState.hand) < HandTarget
====
